---------------------------- MODULE Spec2Model ----------------------------
(***************************************************************************)
(* Model of the smart calculator of src/main.go: the read-eval-print loop  *)
(* of main, the variable store, the assignment handler and the expression  *)
(* pipeline normalizeOperators -> tokenize -> infixToPostfix ->            *)
(* evaluatePostfix.                                                        *)
(*                                                                         *)
(* A Go string is a sequence of one-character strings: "1+2" is            *)
(* <<"1", "+", "2">>.  A token list is a sequence of such sequences.       *)
(* A Go error is its message, "" standing for nil.                         *)
(*                                                                         *)
(* Go's int is 64 bits wide and TLC's integers are 32 bits wide, so the    *)
(* arithmetic of evaluatePostfix is exact here only on operands of         *)
(* magnitude at most MaxVal; an evaluation that leaves that range ends     *)
(* with the mark OutOfRange, which is neither a value nor a Go error.      *)
(***************************************************************************)
EXTENDS Integers, Sequences, FiniteSets, TLC

VARIABLES variables, input, line, handler, postfix, result, printed, running

vars == <<variables, input, line, handler, postfix, result, printed, running>>

(***************************************************************************)
(* Bounds of the model.                                                    *)
(***************************************************************************)
\* longest line typed in a session of assignments (Spec)
MaxLen == 4
\* longest arithmetic expression typed (SpecArith)
MaxArithLen == 7
\* longest line typed in a session with one variable (SpecVars)
MaxVarsLen == 5
\* longest line typed freely (SpecFree)
MaxFreeLen == 5
\* largest magnitude on which the arithmetic is modelled exactly
MaxVal == 32767

(***************************************************************************)
(* Characters.                                                             *)
(***************************************************************************)
Digits == {"0", "1", "2", "3", "4", "5", "6", "7", "8", "9"}

DigitVal(c) ==
  CASE c = "0" -> 0 [] c = "1" -> 1 [] c = "2" -> 2 [] c = "3" -> 3
    [] c = "4" -> 4 [] c = "5" -> 5 [] c = "6" -> 6 [] c = "7" -> 7
    [] c = "8" -> 8 [] c = "9" -> 9

LatinLetters == {"a", "b", "e", "h", "i", "l", "p", "t", "x", "y", "X"}

\* letters of other scripts, which unicode.IsLetter accepts as well
OtherLetters == {"µ"}

\* unicode.IsLetter
IsLetter(c) == c \in LatinLetters \cup OtherLetters

\* unicode.IsSpace, as strings.TrimSpace and strings.Fields use it
IsSpace(c) == c = " "

(***************************************************************************)
(* The functions of package strings and strconv that the program calls.    *)
(***************************************************************************)
\* strings.Contains
Contains(s, sub) ==
  \E i \in 1..(Len(s) - Len(sub) + 1) : SubSeq(s, i, i + Len(sub) - 1) = sub

\* strings.HasPrefix
HasPrefix(s, p) == Len(s) >= Len(p) /\ SubSeq(s, 1, Len(p)) = p

\* strings.ReplaceAll for a non-empty old: the non-overlapping occurrences
\* of old, found from the left, each replaced by new
RECURSIVE ReplaceAll(_, _, _)
ReplaceAll(s, old, new) ==
  IF Len(s) < Len(old) THEN s
  ELSE IF SubSeq(s, 1, Len(old)) = old
       THEN new \o ReplaceAll(SubSeq(s, Len(old) + 1, Len(s)), old, new)
       ELSE <<Head(s)>> \o ReplaceAll(Tail(s), old, new)

RECURSIVE TrimLeft(_)
TrimLeft(s) == IF s # <<>> /\ IsSpace(Head(s)) THEN TrimLeft(Tail(s)) ELSE s

RECURSIVE TrimRight(_)
TrimRight(s) ==
  IF s # <<>> /\ IsSpace(s[Len(s)]) THEN TrimRight(SubSeq(s, 1, Len(s) - 1))
  ELSE s

\* strings.TrimSpace
TrimSpace(s) == TrimRight(TrimLeft(s))

\* strings.Fields: the maximal runs of non-space characters, in order.
\* cur is the run being read.
RECURSIVE FieldsFrom(_, _)
FieldsFrom(s, cur) ==
  IF s = <<>> THEN (IF cur = <<>> THEN <<>> ELSE <<cur>>)
  ELSE IF IsSpace(Head(s))
       THEN (IF cur = <<>> THEN <<>> ELSE <<cur>>) \o FieldsFrom(Tail(s), <<>>)
       ELSE FieldsFrom(Tail(s), Append(cur, Head(s)))

Fields(s) == FieldsFrom(s, <<>>)

\* strings.Split(s, sep) for a one-character sep: one part more than there
\* are separators, empty parts kept
RECURSIVE SplitFrom(_, _, _)
SplitFrom(s, sep, cur) ==
  IF s = <<>> THEN <<cur>>
  ELSE IF Head(s) = sep THEN <<cur>> \o SplitFrom(Tail(s), sep, <<>>)
       ELSE SplitFrom(Tail(s), sep, Append(cur, Head(s)))

Split(s, sep) == SplitFrom(s, sep, <<>>)

\* the value of a run of decimal digits
RECURSIVE DigitsVal(_)
DigitsVal(s) ==
  IF s = <<>> THEN 0
  ELSE 10 * DigitsVal(SubSeq(s, 1, Len(s) - 1)) + DigitVal(s[Len(s)])

\* the digits of s once strconv.Atoi has taken an optional sign off
Unsigned(s) == IF s # <<>> /\ Head(s) \in {"+", "-"} THEN Tail(s) ELSE s

\* strconv.Atoi returns a nil error: an optional sign, then one digit or
\* more and nothing else (the lines typed here are too short to overflow)
AtoiOk(s) ==
  /\ Unsigned(s) # <<>>
  /\ \A i \in 1..Len(Unsigned(s)) : Unsigned(s)[i] \in Digits

\* strconv.Atoi's value
Atoi(s) ==
  IF s # <<>> /\ Head(s) = "-" THEN 0 - DigitsVal(Unsigned(s))
  ELSE DigitsVal(Unsigned(s))

(***************************************************************************)
(* Classification and lookup.                                              *)
(***************************************************************************)
precedence(op) ==
  IF op = <<"^">> THEN 3
  ELSE IF op \in {<<"*">>, <<"/">>} THEN 2
  ELSE IF op \in {<<"+">>, <<"-">>} THEN 1
  ELSE 0

isRightAssociative(op) == op = <<"^">>

isValidIdentifier(s) ==
  /\ \A i \in 1..Len(s) : IsLetter(s[i])
  /\ Len(s) > 0

isNumber(s) == AtoiOk(s)

\* the error results of the program ("" is a nil error)
InvalidExpression == "Invalid expression"
UnknownVariable == "Unknown variable"
InvalidIdentifier == "Invalid identifier"
DivisionByZero == "Division by zero"
\* not a Go error: the evaluation left the range the model is exact on
OutOfRange == "(outside the modelled integer range)"

\* (mutant) the map read without its ok: an absent key reads as 0
resolveValueUnchecked(token, store) ==
  IF isNumber(token) THEN [val |-> Atoi(token), err |-> ""]
  ELSE IF isValidIdentifier(token)
       THEN [val |-> IF token \in DOMAIN store THEN store[token] ELSE 0,
             err |-> ""]
       ELSE [val |-> 0, err |-> InvalidIdentifier]

\* resolveValue against the store: [val, err]
resolveValue(token, store) ==
  IF isNumber(token) THEN [val |-> Atoi(token), err |-> ""]
  ELSE IF isValidIdentifier(token)
       THEN IF token \notin DOMAIN store
            THEN [val |-> 0, err |-> UnknownVariable]
            ELSE [val |-> store[token], err |-> ""]
       ELSE [val |-> 0, err |-> InvalidIdentifier]

(***************************************************************************)
(* normalizeOperators and tokenize.                                        *)
(***************************************************************************)
\* for strings.Contains(expr, old) { expr = strings.ReplaceAll(expr, old, new) }
RECURSIVE ReplaceWhileContains(_, _, _)
ReplaceWhileContains(s, old, new) ==
  IF Contains(s, old) THEN ReplaceWhileContains(ReplaceAll(s, old, new), old, new)
  ELSE s

\* the one pass that replaces "++" by "+"
CollapsePlus(expr) == ReplaceAll(expr, <<"+", "+">>, <<"+">>)

normalizeOperators(expr) ==
  LET e1 == CollapsePlus(expr)
      e2 == ReplaceWhileContains(e1, <<"-", "-">>, <<"+">>)
      e3 == ReplaceWhileContains(e2, <<"+", "-">>, <<"-">>)
      e4 == ReplaceWhileContains(e3, <<"-", "+">>, <<"-">>)
  IN  e4

\* the characters the replacer of tokenize puts spaces around
Punctuation == {"(", ")", "+", "-", "*", "/", "^"}

\* replacer.Replace
RECURSIVE SpaceOut(_)
SpaceOut(s) ==
  IF s = <<>> THEN <<>>
  ELSE IF Head(s) \in Punctuation
       THEN <<" ", Head(s), " ">> \o SpaceOut(Tail(s))
       ELSE <<Head(s)>> \o SpaceOut(Tail(s))

tokenize(expr) == Fields(SpaceOut(expr))

(***************************************************************************)
(* infixToPostfix.  A conversion in progress is [output, stack, err].      *)
(***************************************************************************)
Top(stack) == stack[Len(stack)]
Pop(stack) == SubSeq(stack, 1, Len(stack) - 1)

IsOperator(token) ==
  token \in {<<"+">>, <<"-">>, <<"*">>, <<"/">>, <<"^">>}

\* the `)` branch: pop to the output until a `(` is popped
RECURSIVE PopToLeftParen(_, _)
PopToLeftParen(output, stack) ==
  IF stack = <<>> THEN [output |-> output, stack |-> stack, foundLeft |-> FALSE]
  ELSE IF Top(stack) = <<"(">>
       THEN [output |-> output, stack |-> Pop(stack), foundLeft |-> TRUE]
       ELSE PopToLeftParen(Append(output, Top(stack)), Pop(stack))

\* the test on the token of the operator branch
RepeatedOperator(token) ==
  Contains(token, <<"*", "*">>) \/ Contains(token, <<"/", "/">>)

\* (mutant) the associativity of the token ignored: pops on equal precedence
ShouldPopOnEqual(top, token) == precedence(top) >= precedence(token)

\* the condition under which the operator branch pops the top of the stack
ShouldPop(top, token) ==
  \/ precedence(top) > precedence(token)
  \/ (precedence(top) = precedence(token) /\ ~isRightAssociative(token))

\* the loop of the operator branch
RECURSIVE PopOperators(_, _, _)
PopOperators(output, stack, token) ==
  IF stack # <<>> /\ ShouldPop(Top(stack), token)
  THEN PopOperators(Append(output, Top(stack)), Pop(stack), token)
  ELSE [output |-> output, stack |-> stack]

\* (mutant) the final loop without its test
IsParenUnchecked(top) == FALSE

\* the test of the final loop on an entry popped from the stack
IsParen(top) == top = <<"(">> \/ top = <<")">>

\* the final loop: pop what is left
RECURSIVE DrainStack(_, _)
DrainStack(output, stack) ==
  IF stack = <<>> THEN [postfix |-> output, err |-> ""]
  ELSE IF IsParen(Top(stack)) THEN [postfix |-> <<>>, err |-> InvalidExpression]
       ELSE DrainStack(Append(output, Top(stack)), Pop(stack))

\* the body of the loop over the tokens
ConvertToken(st, token) ==
  IF isNumber(token) \/ isValidIdentifier(token)
  THEN [st EXCEPT !.output = Append(st.output, token)]
  ELSE IF token = <<"(">>
  THEN [st EXCEPT !.stack = Append(st.stack, token)]
  ELSE IF token = <<")">>
  THEN LET p == PopToLeftParen(st.output, st.stack)
       IN  IF ~p.foundLeft THEN [st EXCEPT !.err = InvalidExpression]
           ELSE [st EXCEPT !.output = p.output, !.stack = p.stack]
  ELSE IF IsOperator(token)
  THEN IF RepeatedOperator(token) THEN [st EXCEPT !.err = InvalidExpression]
       ELSE LET p == PopOperators(st.output, st.stack, token)
            IN  [st EXCEPT !.output = p.output, !.stack = Append(p.stack, token)]
  ELSE [st EXCEPT !.err = InvalidExpression]

RECURSIVE ConvertFrom(_, _, _)
ConvertFrom(tokens, i, st) ==
  IF st.err # "" \/ i > Len(tokens) THEN st
  ELSE ConvertFrom(tokens, i + 1, ConvertToken(st, tokens[i]))

\* infixToPostfix: [postfix, err], the postfix nil (empty) with an error
infixToPostfix(expr) ==
  LET tokens == tokenize(normalizeOperators(expr))
      st == ConvertFrom(tokens, 1, [output |-> <<>>, stack |-> <<>>, err |-> ""])
  IN  IF st.err # "" THEN [postfix |-> <<>>, err |-> st.err]
      ELSE DrainStack(st.output, st.stack)

(***************************************************************************)
(* evaluatePostfix.  An evaluation in progress is [stack, err]; an         *)
(* operator's result is [val, err].                                        *)
(***************************************************************************)
Abs(n) == IF n < 0 THEN 0 - n ELSE n

InRange(n) == Abs(n) <= MaxVal

\* Go's a / b for b # 0: the quotient truncated toward zero
Quot(a, b) ==
  IF (a < 0) = (b < 0) THEN Abs(a) \div Abs(b) ELSE 0 - (Abs(a) \div Abs(b))

\* a to the power b for b >= 0, by repeated multiplication from acc,
\* OutOfRange as soon as the product leaves the modelled range
RECURSIVE PowFrom(_, _, _)
PowFrom(a, b, acc) ==
  IF b = 0 THEN [val |-> acc, err |-> ""]
  ELSE IF ~InRange(acc * a) THEN [val |-> 0, err |-> OutOfRange]
  ELSE PowFrom(a, b - 1, acc * a)

\* int(math.Pow(float64(a), float64(b))) on operands in range.  Every power
\* in range is exact in a float64.  A negative exponent gives a fraction
\* that the conversion truncates to 0, exactly 1 or -1 for the bases 1 and
\* -1, and +Inf for the base 0, whose conversion to int depends on the
\* platform and is no value of the modelled range.
Pow(a, b) ==
  IF a = 1 \/ b = 0 THEN [val |-> 1, err |-> ""]
  ELSE IF a = 0 - 1 THEN [val |-> IF b % 2 = 0 THEN 1 ELSE 0 - 1, err |-> ""]
  ELSE IF a = 0 THEN (IF b > 0 THEN [val |-> 0, err |-> ""]
                      ELSE [val |-> 0, err |-> OutOfRange])
  ELSE IF b < 0 THEN [val |-> 0, err |-> ""]
  ELSE PowFrom(a, b, 1)

\* the cases of the switch on an operator token, but for the test of `/`
Arithmetic(token, a, b) ==
  IF token \notin {<<"+">>, <<"-">>, <<"*">>, <<"/">>, <<"^">>}
  THEN [val |-> 0, err |-> InvalidExpression]
  ELSE IF ~InRange(a) \/ ~InRange(b) THEN [val |-> 0, err |-> OutOfRange]
  ELSE IF token = <<"+">> THEN [val |-> a + b, err |-> ""]
  ELSE IF token = <<"-">> THEN [val |-> a - b, err |-> ""]
  ELSE IF token = <<"*">> THEN [val |-> a * b, err |-> ""]
  ELSE IF token = <<"/">> THEN [val |-> Quot(a, b), err |-> ""]
  ELSE Pow(a, b)

\* (mutant) the test of `/` made on the left operand: a / 0 is then
\* computed, and Go panics
ApplyOperatorTestingDividend(token, a, b) ==
  IF token = <<"/">> /\ a = 0 THEN [val |-> 0, err |-> DivisionByZero]
  ELSE IF token = <<"/">> /\ b = 0
  THEN [val |-> 0, err |-> "panic: runtime error: integer divide by zero"]
  ELSE Arithmetic(token, a, b)

\* the switch on the operator token
ApplyOperator(token, a, b) ==
  IF token = <<"/">> /\ b = 0 THEN [val |-> 0, err |-> DivisionByZero]
  ELSE Arithmetic(token, a, b)

\* the body of the loop over the postfix tokens
EvalToken(st, token, store) ==
  IF isNumber(token) \/ isValidIdentifier(token)
  THEN LET r == resolveValue(token, store)
       IN  IF r.err # "" THEN [st EXCEPT !.err = r.err]
           ELSE [st EXCEPT !.stack = Append(st.stack, r.val)]
  ELSE IF Len(st.stack) < 2 THEN [st EXCEPT !.err = InvalidExpression]
  ELSE LET b == st.stack[Len(st.stack)]
           a == st.stack[Len(st.stack) - 1]
           r == ApplyOperator(token, a, b)
       IN  IF r.err # "" THEN [st EXCEPT !.err = r.err]
           ELSE [st EXCEPT !.stack =
                   Append(SubSeq(st.stack, 1, Len(st.stack) - 2), r.val)]

\* the evaluation after the first n tokens of the postfix
RECURSIVE EvalPrefix(_, _, _)
EvalPrefix(pf, n, store) ==
  IF n = 0 THEN [stack |-> <<>>, err |-> ""]
  ELSE LET st == EvalPrefix(pf, n - 1, store)
       IN  IF st.err # "" THEN st ELSE EvalToken(st, pf[n], store)

\* evaluatePostfix: [val, err]
evaluatePostfix(pf, store) ==
  LET st == EvalPrefix(pf, Len(pf), store)
  IN  IF st.err # "" THEN [val |-> 0, err |-> st.err]
      ELSE IF Len(st.stack) # 1 THEN [val |-> 0, err |-> InvalidExpression]
      ELSE [val |-> st.stack[1], err |-> ""]

(***************************************************************************)
(* handleAssignment: the store it leaves and the line it prints ("" when   *)
(* it prints nothing).                                                     *)
(***************************************************************************)
\* variables[left] = val
Store(store, left, val) ==
  [k \in DOMAIN store \cup {left} |-> IF k = left THEN val ELSE store[k]]

\* (mutant) the right side read without its ok: an unbound identifier
\* stores 0 before the message
handleAssignmentUnchecked(ln, store) ==
  LET parts == Split(ln, "=")
      left == TrimSpace(parts[1])
      right == TrimSpace(parts[2])
  IN  IF Len(parts) # 2 THEN [store |-> store, msg |-> "Invalid assignment"]
      ELSE IF ~isValidIdentifier(left)
      THEN [store |-> store, msg |-> InvalidIdentifier]
      ELSE IF isNumber(right)
      THEN [store |-> Store(store, left, Atoi(right)), msg |-> ""]
      ELSE IF isValidIdentifier(right)
      THEN IF right \notin DOMAIN store
           THEN [store |-> Store(store, left, 0), msg |-> UnknownVariable]
           ELSE [store |-> Store(store, left, store[right]), msg |-> ""]
      ELSE [store |-> store, msg |-> "Invalid assignment"]

handleAssignment(ln, store) ==
  LET parts == Split(ln, "=")
      left == TrimSpace(parts[1])
      right == TrimSpace(parts[2])
  IN  IF Len(parts) # 2 THEN [store |-> store, msg |-> "Invalid assignment"]
      ELSE IF ~isValidIdentifier(left)
      THEN [store |-> store, msg |-> InvalidIdentifier]
      ELSE IF isNumber(right)
      THEN [store |-> Store(store, left, Atoi(right)), msg |-> ""]
      ELSE IF isValidIdentifier(right)
      THEN IF right \notin DOMAIN store
           THEN [store |-> store, msg |-> UnknownVariable]
           ELSE [store |-> Store(store, left, store[right]), msg |-> ""]
      ELSE [store |-> store, msg |-> "Invalid assignment"]

(***************************************************************************)
(* The lines a session types.  The scanner hands main whatever the user    *)
(* types; each specification below lets the user type the lines of one     *)
(* class, character by character, besides the fixed lines of Words.        *)
(***************************************************************************)
Chars == Digits \cup LatinLetters \cup OtherLetters \cup Punctuation \cup {" ", "="}

ExitCommand == <<"/", "e", "x", "i", "t">>
HelpCommand == <<"/", "h", "e", "l", "p">>

\* lines every session may type, so that every branch of main is taken
Words == {ExitCommand, HelpCommand, <<"1", "=", "1">>, <<"x">>}

IsWordPrefix(s) == \E w \in Words : HasPrefix(w, s)

OperandChars == Digits \cup LatinLetters \cup OtherLetters

\* every number and identifier of s is one character long
SingleCharOperands(s) ==
  \A i \in 1..(Len(s) - 1) : ~(s[i] \in OperandChars /\ s[i + 1] \in OperandChars)

Over(s, alphabet) == \A i \in 1..Len(s) : s[i] \in alphabet

\* a session of assignments, lookups and sums over x, y and a non-Latin letter
SessionAlphabet == {"x", "y", "µ", "1", "2", "=", "+"}
SessionLine(s) ==
  \/ IsWordPrefix(s)
  \/ Len(s) <= MaxLen /\ Over(s, SessionAlphabet) /\ SingleCharOperands(s)

\* a session with the one variable x
VarsAlphabet == {"x", "0", "1", "=", "+", "/", "^"}
VarsLine(s) ==
  \/ IsWordPrefix(s)
  \/ Len(s) <= MaxVarsLen /\ Over(s, VarsAlphabet) /\ SingleCharOperands(s)

\* any line over a few characters
FreeAlphabet == {"1", "+", "-", "*", "(", ")", " "}
FreeLine(s) ==
  \/ IsWordPrefix(s)
  \/ Len(s) <= MaxFreeLen /\ Over(s, FreeAlphabet)

\* the beginnings of the arithmetic expressions over one-digit literals:
\* an operand or `(` where an operand is due, an operator or a matching `)`
\* after an operand
ArithDigits == {"1", "2", "3"}
ArithOperators == {"+", "-", "*", "/", "^"}
RECURSIVE ArithPrefixFrom(_, _, _, _)
ArithPrefixFrom(s, i, depth, operandDue) ==
  IF i > Len(s) THEN TRUE
  ELSE IF operandDue
       THEN IF s[i] \in ArithDigits THEN ArithPrefixFrom(s, i + 1, depth, FALSE)
            ELSE IF s[i] = "(" THEN ArithPrefixFrom(s, i + 1, depth + 1, TRUE)
            ELSE FALSE
       ELSE IF s[i] \in ArithOperators THEN ArithPrefixFrom(s, i + 1, depth, TRUE)
            ELSE IF s[i] = ")" /\ depth > 0
                 THEN ArithPrefixFrom(s, i + 1, depth - 1, FALSE)
            ELSE FALSE

ArithLine(s) ==
  \/ IsWordPrefix(s)
  \/ Len(s) <= MaxArithLen /\ ArithPrefixFrom(s, 1, 0, TRUE)

\* the user of a session of the given class may have typed s
MayType(class, s) ==
  CASE class = "session" -> SessionLine(s)
    [] class = "arithmetic" -> ArithLine(s)
    [] class = "variable" -> VarsLine(s)
    [] class = "free" -> FreeLine(s)

(***************************************************************************)
(* The state.  variables is the store; input is what has been typed of the *)
(* line being entered; line, handler, postfix, result and printed are what *)
(* the last iteration of main's loop read, did and printed.                *)
(***************************************************************************)
Nothing == [kind |-> "none", msg |-> "", val |-> 0]
Say(msg) == [kind |-> "msg", msg |-> msg, val |-> 0]
Number(v) == [kind |-> "int", msg |-> "", val |-> v]
\* an integer outside the modelled range was printed
SomeNumber == [kind |-> "unmodelled int", msg |-> "", val |-> 0]

NoPostfix == [postfix |-> <<>>, err |-> ""]
NoResult == [val |-> 0, err |-> ""]
EmptyStore == [k \in {} |-> 0]

Init ==
  /\ variables = EmptyStore
  /\ input = <<>>
  /\ line = <<>>
  /\ handler = "none"
  /\ postfix = NoPostfix
  /\ result = NoResult
  /\ printed = Nothing
  /\ running = TRUE

\* line := strings.TrimSpace(scanner.Text())
Entered == TrimSpace(input)

\* what every branch of the loop does with its line, and what the branches
\* that evaluate nothing leave
Read(name) ==
  /\ running
  /\ line' = Entered
  /\ input' = <<>>
  /\ handler' = name

NoEvaluation == postfix' = NoPostfix /\ result' = NoResult

\* the user types one more character of the line; the iteration that reads
\* it starts with fresh locals
TypeChar(class) ==
  /\ running
  /\ \E c \in Chars :
       /\ MayType(class, Append(input, c))
       /\ input' = Append(input, c)
  /\ line' = <<>>
  /\ handler' = "none"
  /\ printed' = Nothing
  /\ NoEvaluation
  /\ UNCHANGED <<variables, running>>

Exit ==
  /\ Entered = ExitCommand
  /\ Read("exit")
  /\ printed' = Say("Bye!")
  /\ running' = FALSE
  /\ NoEvaluation
  /\ UNCHANGED variables

Help ==
  /\ Entered = HelpCommand
  /\ Read("help")
  /\ printed' = Say("The program supports +, -, *, /, ^ and parentheses ().")
  /\ NoEvaluation
  /\ UNCHANGED <<variables, running>>

EmptyLine ==
  /\ Entered = <<>>
  /\ Read("empty")
  /\ printed' = Nothing
  /\ NoEvaluation
  /\ UNCHANGED <<variables, running>>

IsCommand(ln) == HasPrefix(ln, <<"/">>)

UnknownCommand ==
  /\ Entered \notin {ExitCommand, HelpCommand, <<>>}
  /\ IsCommand(Entered)
  /\ Read("command")
  /\ printed' = Say("Unknown command")
  /\ NoEvaluation
  /\ UNCHANGED <<variables, running>>

IsAssignment(ln) == ~IsCommand(ln) /\ Contains(ln, <<"=">>)

Assignment ==
  /\ IsAssignment(Entered)
  /\ Read("assignment")
  /\ LET r == handleAssignment(Entered, variables)
     IN  /\ variables' = r.store
         /\ printed' = IF r.msg = "" THEN Nothing ELSE Say(r.msg)
  /\ NoEvaluation
  /\ UNCHANGED running

IsLookup(ln) == ~IsCommand(ln) /\ ~IsAssignment(ln) /\ isValidIdentifier(ln)

Lookup ==
  /\ IsLookup(Entered)
  /\ Read("lookup")
  /\ printed' = IF Entered \notin DOMAIN variables THEN Say(UnknownVariable)
                ELSE Number(variables[Entered])
  /\ NoEvaluation
  /\ UNCHANGED <<variables, running>>

IsExpression(ln) ==
  ln # <<>> /\ ~IsCommand(ln) /\ ~IsAssignment(ln) /\ ~isValidIdentifier(ln)

\* what main prints after the pipeline
Report(conv, ev) ==
  IF conv.err # "" THEN Say(InvalidExpression)
  ELSE IF ev.err = OutOfRange THEN SomeNumber
  ELSE IF ev.err # "" THEN Say(InvalidExpression)
  ELSE Number(ev.val)

Evaluate ==
  /\ IsExpression(Entered)
  /\ Read("evaluate")
  /\ LET conv == infixToPostfix(Entered)
         ev == IF conv.err # "" THEN NoResult
               ELSE evaluatePostfix(conv.postfix, variables)
     IN  /\ postfix' = conv
         /\ result' = ev
         /\ printed' = Report(conv, ev)
  /\ UNCHANGED <<variables, running>>

Next(class) ==
  \/ TypeChar(class)
  \/ Exit
  \/ Help
  \/ EmptyLine
  \/ UnknownCommand
  \/ Assignment
  \/ Lookup
  \/ Evaluate

\* a session of assignments and lookups
Spec == Init /\ [][Next("session")]_vars
\* a session of arithmetic over literals
SpecArith == Init /\ [][Next("arithmetic")]_vars
\* a session with one variable
SpecVars == Init /\ [][Next("variable")]_vars
\* a session of arbitrary short lines
SpecFree == Init /\ [][Next("free")]_vars

(***************************************************************************)
(* Direct evaluation, for the properties to compare the pipeline with: a   *)
(* recursive-descent reading of the line by the grammar                    *)
(*     expr    ::= term   { ("+" | "-") term }       left to right         *)
(*     term    ::= factor { ("*" | "/") factor }     left to right         *)
(*     factor  ::= primary [ "^" factor ]            right to left         *)
(*     primary ::= number | identifier | "(" expr ")"                      *)
(* A reading from position i is [ok, next, val, err]: whether a phrase     *)
(* starts at i, where it ends, and its value or the first failure of its   *)
(* evaluation.  Each operation is Go's (ApplyOperator); what the grammar    *)
(* fixes is which operations are applied to which operands.                *)
(***************************************************************************)
RECURSIVE SkipSpaces(_, _)
SkipSpaces(s, i) ==
  IF i <= Len(s) /\ s[i] = " " THEN SkipSpaces(s, i + 1) ELSE i

RECURSIVE WordEnd(_, _)
WordEnd(s, i) ==
  IF i <= Len(s) /\ s[i] \notin Punctuation \cup {" "} THEN WordEnd(s, i + 1)
  ELSE i

NoPhrase == [ok |-> FALSE, next |-> 0, val |-> 0, err |-> ""]

\* the operator, if any, at the next place that is not a space
OperatorAt(s, i, ops) ==
  SkipSpaces(s, i) <= Len(s) /\ s[SkipSpaces(s, i)] \in ops

Combine(l, op, r) ==
  IF l.err # "" THEN [r EXCEPT !.val = 0, !.err = l.err]
  ELSE IF r.err # "" THEN r
  ELSE LET v == ApplyOperator(<<op>>, l.val, r.val)
       IN  [r EXCEPT !.val = v.val, !.err = v.err]

RECURSIVE DirectExpr(_, _, _)
RECURSIVE DirectExprRest(_, _, _)
RECURSIVE DirectTerm(_, _, _)
RECURSIVE DirectTermRest(_, _, _)
RECURSIVE DirectFactor(_, _, _)
RECURSIVE DirectPrimary(_, _, _)

DirectPrimary(s, i, store) ==
  LET j == SkipSpaces(s, i)
  IN  IF j > Len(s) THEN NoPhrase
      ELSE IF s[j] = "("
      THEN LET e == DirectExpr(s, j + 1, store)
           IN  IF e.ok /\ OperatorAt(s, e.next, {")"})
               THEN [e EXCEPT !.next = SkipSpaces(s, e.next) + 1]
               ELSE NoPhrase
      ELSE LET k == WordEnd(s, j)
               word == SubSeq(s, j, k - 1)
           IN  IF word # <<>> /\ Over(word, Digits)
               THEN [ok |-> TRUE, next |-> k, val |-> DigitsVal(word), err |-> ""]
               ELSE IF word # <<>> /\ Over(word, LatinLetters \cup OtherLetters)
               THEN IF word \in DOMAIN store
                    THEN [ok |-> TRUE, next |-> k, val |-> store[word], err |-> ""]
                    ELSE [ok |-> TRUE, next |-> k, val |-> 0, err |-> UnknownVariable]
               ELSE NoPhrase

DirectFactor(s, i, store) ==
  LET p == DirectPrimary(s, i, store)
  IN  IF p.ok /\ OperatorAt(s, p.next, {"^"})
      THEN LET f == DirectFactor(s, SkipSpaces(s, p.next) + 1, store)
           IN  IF f.ok THEN Combine(p, "^", f) ELSE NoPhrase
      ELSE p

DirectTermRest(s, left, store) ==
  IF OperatorAt(s, left.next, {"*", "/"})
  THEN LET at == SkipSpaces(s, left.next)
           f == DirectFactor(s, at + 1, store)
       IN  IF f.ok THEN DirectTermRest(s, Combine(left, s[at], f), store)
           ELSE NoPhrase
  ELSE left

DirectTerm(s, i, store) ==
  LET f == DirectFactor(s, i, store)
  IN  IF f.ok THEN DirectTermRest(s, f, store) ELSE NoPhrase

DirectExprRest(s, left, store) ==
  IF OperatorAt(s, left.next, {"+", "-"})
  THEN LET at == SkipSpaces(s, left.next)
           t == DirectTerm(s, at + 1, store)
       IN  IF t.ok THEN DirectExprRest(s, Combine(left, s[at], t), store)
           ELSE NoPhrase
  ELSE left

DirectExpr(s, i, store) ==
  LET t == DirectTerm(s, i, store)
  IN  IF t.ok THEN DirectExprRest(s, t, store) ELSE NoPhrase

\* the line is an infix expression, all of it
WellFormed(s) ==
  LET e == DirectExpr(s, 1, EmptyStore)
  IN  e.ok /\ SkipSpaces(s, e.next) > Len(s)

\* its direct evaluation: [val, err]
Direct(s, store) ==
  LET e == DirectExpr(s, 1, store) IN [val |-> e.val, err |-> e.err]

HasLetter(s) == \E i \in 1..Len(s) : IsLetter(s[i])

Evaluated == handler = "evaluate"

(***************************************************************************)
(* C1.  For every well-formed arithmetic expression over integer literals, *)
(* + - * / ^ and parentheses, infixToPostfix succeeds and evaluatePostfix  *)
(* returns what direct evaluation with the standard precedence returns     *)
(* (^ tightest and right to left, then * and /, then + and -, left to      *)
(* right): the same integer, or the same failure.                          *)
(***************************************************************************)
PipelineMatchesDirectEvaluation ==
  (Evaluated /\ WellFormed(line) /\ ~HasLetter(line))
    => (postfix.err = "" /\ result = Direct(line, EmptyStore))

\* 2^3^2 was evaluated, to 512
PowerChainEvaluated ==
  /\ Evaluated
  /\ line = <<"2", "^", "3", "^", "2">>
  /\ result = [val |-> 512, err |-> ""]

(***************************************************************************)
(* C2.  Sign parity: the line made of k minus signs and then the digits of *)
(* n evaluates to n when k is even and to -n when k is odd.                *)
(***************************************************************************)
RECURSIVE LeadingMinuses(_)
LeadingMinuses(s) ==
  IF s # <<>> /\ Head(s) = "-" THEN 1 + LeadingMinuses(Tail(s)) ELSE 0

\* the line without its leading minus signs
Magnitude(s) == SubSeq(s, LeadingMinuses(s) + 1, Len(s))

IsSignedLiteral(s) == Magnitude(s) # <<>> /\ Over(Magnitude(s), Digits)

SignParity ==
  (Evaluated /\ IsSignedLiteral(line))
    => /\ postfix.err = ""
       /\ result.err = ""
       /\ result.val = IF LeadingMinuses(line) % 2 = 0
                       THEN DigitsVal(Magnitude(line))
                       ELSE 0 - DigitsVal(Magnitude(line))

(***************************************************************************)
(* C3.  normalizeOperators is idempotent: its result on the line it is     *)
(* given is a fixed point, which holds none of ++, --, +-, -+.             *)
(***************************************************************************)
SignPairs == {<<"+", "+">>, <<"-", "-">>, <<"+", "-">>, <<"-", "+">>}

NormalizeIdempotent ==
  Evaluated =>
    LET n == normalizeOperators(line)
    IN  /\ normalizeOperators(n) = n
        /\ \A pair \in SignPairs : ~Contains(n, pair)

(***************************************************************************)
(* C4.  A line in which two of the operators * / ^ follow each other with  *)
(* no operand between them makes infixToPostfix fail: it returns an error  *)
(* and no postfix.                                                         *)
(***************************************************************************)
Multiplicative == {"*", "/", "^"}

HasRepeatedMultiplicative(s) ==
  \E i \in 1..Len(s) : \E j \in (i + 1)..Len(s) :
    /\ s[i] \in Multiplicative
    /\ s[j] \in Multiplicative
    /\ \A k \in (i + 1)..(j - 1) : s[k] = " "

RepeatedMultiplicativeRejected ==
  (Evaluated /\ HasRepeatedMultiplicative(line))
    => (postfix.err # "" /\ postfix.postfix = <<>>)

(***************************************************************************)
(* C5.  infixToPostfix fails on every line whose parentheses are           *)
(* unbalanced, a `)` with no `(` open before it or a `(` never closed, and *)
(* a postfix it returns holds no parenthesis.                              *)
(***************************************************************************)
\* the parentheses of s from position i on do not match, depth being open
RECURSIVE UnbalancedFrom(_, _, _)
UnbalancedFrom(s, i, depth) ==
  IF i > Len(s) THEN depth > 0
  ELSE IF s[i] = "(" THEN UnbalancedFrom(s, i + 1, depth + 1)
  ELSE IF s[i] = ")" THEN (depth = 0 \/ UnbalancedFrom(s, i + 1, depth - 1))
  ELSE UnbalancedFrom(s, i + 1, depth)

Unbalanced(s) == UnbalancedFrom(s, 1, 0)

UnbalancedParenthesesRejected ==
  Evaluated =>
    /\ Unbalanced(line) => postfix.err = InvalidExpression
    /\ postfix.err = "" =>
         \A i \in 1..Len(postfix.postfix) :
           postfix.postfix[i] \notin {<<"(">>, <<")">>}

\* ( 1 + 1 was converted: the `(` was still on the stack at the end
UnclosedParenthesisRejected ==
  /\ Evaluated
  /\ line = <<"(", "1", "+", "1">>
  /\ postfix.err = InvalidExpression

(***************************************************************************)
(* C10.  The pipeline returns an integer only for a well-formed infix      *)
(* expression: a line that is none (two operands with no operator between, *)
(* an operator lacking an operand, empty parentheses) makes infixToPostfix *)
(* or evaluatePostfix return an error.                                     *)
(***************************************************************************)
OnlyWellFormedEvaluates ==
  (Evaluated /\ ~WellFormed(line))
    => (postfix.err # "" \/ result.err \notin {"", OutOfRange})

(***************************************************************************)
(* C6.  Whenever evaluatePostfix comes to apply / with a right operand     *)
(* equal to 0, whatever the left operand and wherever the zero comes from  *)
(* (a literal, a variable bound to 0, the result of a sub-expression), it  *)
(* returns the error Division by zero and no integer.                      *)
(***************************************************************************)
\* token n of the postfix is a / that the evaluation reaches with two
\* operands on its stack, the upper one 0
DividesByZeroAt(pf, n, store) ==
  LET st == EvalPrefix(pf, n - 1, store)
  IN  /\ pf[n] = <<"/">>
      /\ st.err = ""
      /\ Len(st.stack) >= 2
      /\ st.stack[Len(st.stack)] = 0

DivisionByZeroFails ==
  (Evaluated /\ postfix.err = "")
    => \A n \in 1..Len(postfix.postfix) :
         DividesByZeroAt(postfix.postfix, n, variables)
           => /\ result = [val |-> 0, err |-> DivisionByZero]
              /\ printed.kind # "int"

\* 1/x was evaluated with x bound to 0
DividedByZeroVariable ==
  /\ Evaluated
  /\ line = <<"1", "/", "x">>
  /\ <<"x">> \in DOMAIN variables
  /\ variables[<<"x">>] = 0
  /\ result.err = DivisionByZero

(***************************************************************************)
(* C7.  Variable lookup follows the store.  As claimed: the evaluation of  *)
(* an expression that contains an identifier never assigned fails with     *)
(* Unknown variable.                                                       *)
(***************************************************************************)
Unbound(token, store) == isValidIdentifier(token) /\ token \notin DOMAIN store

HasUnbound(pf, store) == \E n \in 1..Len(pf) : Unbound(pf[n], store)

UnboundIdentifierFailsAsUnknown ==
  (Evaluated /\ WellFormed(line) /\ postfix.err = ""
     /\ HasUnbound(postfix.postfix, variables))
    => result.err = UnknownVariable

(***************************************************************************)
(* C7, amended.  The evaluation of an expression that contains an          *)
(* identifier never assigned returns no integer, and fails with Unknown    *)
(* variable unless an operation before the first such identifier, in the   *)
(* order of evaluation, has failed already (a division by zero, a missing  *)
(* operand).  A successful assignment `x = v` leaves x bound to v (to the  *)
(* value of v in the store when v is an identifier), and a later lookup or *)
(* evaluation reads the store as it then is: an expression evaluates to    *)
(* what direct evaluation gives with the current bindings.                 *)
(***************************************************************************)
\* the evaluation reaches token n, an unbound identifier, without a failure
ReachesUnbound(pf, n, store) ==
  Unbound(pf[n], store) /\ EvalPrefix(pf, n - 1, store).err = ""

\* the two sides of the assignment line ln
LeftSide(ln) == TrimSpace(Split(ln, "=")[1])
RightSide(ln) == TrimSpace(Split(ln, "=")[2])

\* the last line was an assignment that succeeded
Assigned == handler = "assignment" /\ printed = Nothing

LookupFollowsStore ==
  /\ (Evaluated /\ postfix.err = "" /\ HasUnbound(postfix.postfix, variables))
       => /\ result.err \notin {"", OutOfRange}
          /\ printed = Say(InvalidExpression)
          /\ (\E n \in 1..Len(postfix.postfix) :
                ReachesUnbound(postfix.postfix, n, variables))
               => result.err = UnknownVariable
  /\ (Evaluated /\ WellFormed(line))
       => (postfix.err = "" /\ result = Direct(line, variables))
  /\ handler = "lookup"
       => printed = IF line \in DOMAIN variables THEN Number(variables[line])
                    ELSE Say(UnknownVariable)
  /\ Assigned
       => /\ LeftSide(line) \in DOMAIN variables
          /\ variables[LeftSide(line)] =
               IF RightSide(line) \in DOMAIN variables
               THEN variables[RightSide(line)]
               ELSE Atoi(RightSide(line))

\* x+1 was evaluated to 2 with x bound to 1
EvaluatedWithBinding ==
  /\ Evaluated
  /\ line = <<"x", "+", "1">>
  /\ <<"x">> \in DOMAIN variables
  /\ variables[<<"x">>] = 1
  /\ result = [val |-> 2, err |-> ""]

(***************************************************************************)
(* C8.  No failing line changes the store: a line that ends in an error    *)
(* message (an assignment with several `=`, with an invalid left side,     *)
(* with an invalid or unbound right side, an expression that fails) leaves *)
(* the store as it was; no evaluation, lookup or command writes it; only a *)
(* successful assignment changes it, and only the entry of its left side.  *)
(***************************************************************************)
FailingLinesKeepStore ==
  [][/\ printed'.kind = "msg" => variables' = variables
     /\ handler' # "assignment" => variables' = variables
     /\ variables' # variables =>
          /\ Assigned'
          /\ DOMAIN variables' = DOMAIN variables \cup {LeftSide(line')}
          /\ \A k \in DOMAIN variables \ {LeftSide(line')} :
               variables'[k] = variables[k]]_vars

\* x=y failed on the unbound y and left the store, which binds x to 1
FailedAssignmentKeptStore ==
  /\ handler = "assignment"
  /\ line = <<"x", "=", "y">>
  /\ printed = Say(UnknownVariable)
  /\ DOMAIN variables = {<<"x">>}
  /\ variables[<<"x">>] = 1

(***************************************************************************)
(* C9.  Store key invariant: every key of the store is a non-empty string  *)
(* of Latin letters only, and a key once present is never removed.         *)
(***************************************************************************)
StoreKeysAreLatin ==
  [][/\ \A k \in DOMAIN variables' : k # <<>> /\ Over(k, LatinLetters)
     /\ DOMAIN variables \subseteq DOMAIN variables']_vars

=============================================================================
